---- MODULE Spec2Model ----
(***************************************************************************)
(* Post-operative triage webhook: the two handler variants of the          *)
(* repository, api/postop.js (score 0..100, labels low/moderate/high,      *)
(* optional Postgres insert, detached SendGrid alert) and the unnamed      *)
(* variant part_000 (additive keyword score, levels routine/urgent/        *)
(* emergency, awaited Telegram alert).                                     *)
(*                                                                         *)
(* One behaviour is one deployment (variant + process.env) handling one    *)
(* request: the handler runs synchronously up to its first await, the      *)
(* awaited I/O (pool.query, fetch) completes in a later step with an       *)
(* outcome chosen by the environment, or never completes.                  *)
(*                                                                         *)
(* Strings the code slices or trims (the Authorization header, the secret) *)
(* are sequences of one-character strings.  Free text is a sequence of     *)
(* phrases.  JavaScript numbers are records [nan, v] so that NaN keeps its *)
(* behaviour under Math.min/Math.max, comparison and truthiness.  The      *)
(* postop.js score is computed exactly in sixths of a point (integer       *)
(* inputs only), then rounded as Math.round does.                          *)
(***************************************************************************)
EXTENDS Integers, Sequences, FiniteSets, TLC

VARIABLES variant, penv, pc, req, res, scored, dbIssued, dbOutcome, alertCalled, fetchState, thrown

vars == <<variant, penv, pc, req, res, scored, dbIssued, dbOutcome, alertCalled, fetchState, thrown>>

(* ------------------------------ bounds --------------------------------- *)

\* Largest pain value submitted (the scale is 0..10; this one is off the scale).
MaxPain == 12

\* Largest temperature submitted, in degrees Celsius.
MaxTemp == 41

\* Largest number of days since the procedure submitted.
MaxDays == 45

\* Longest free text submitted to part_000, in phrases.
MaxWords == 2

\* Longest notes text submitted to postop.js, in phrases.
MaxNoteWords == 1

(* --------------------------- character strings -------------------------- *)

IsSpace(c) == c = " "

RECURSIVE TrimStart(_)
TrimStart(s) == IF s # <<>> /\ IsSpace(Head(s)) THEN TrimStart(Tail(s)) ELSE s

RECURSIVE TrimEnd(_)
TrimEnd(s) ==
  IF s # <<>> /\ IsSpace(s[Len(s)]) THEN TrimEnd(SubSeq(s, 1, Len(s) - 1)) ELSE s

\* String.prototype.trim
Trim(s) == TrimEnd(TrimStart(s))

\* String.prototype.startsWith
StartsWith(s, p) == Len(s) >= Len(p) /\ SubSeq(s, 1, Len(p)) = p

\* String.prototype.slice(n)
Slice(s, n) == SubSeq(s, n + 1, Len(s))

BearerPrefix == <<"B", "e", "a", "r", "e", "r", " ">>

(* ----------------------------- JS values -------------------------------- *)

\* A JSON value of the request body: absent key, number, string, or an object
\* whose own "toString"/"valueOf" keys are not functions ({"toString":1,...}).
Absent == [t |-> "absent", n |-> 0, s |-> ""]
RawNum(n) == [t |-> "num", n |-> n, s |-> ""]
RawStr(s) == [t |-> "str", n |-> 0, s |-> s]
BadObj == [t |-> "obj", n |-> 0, s |-> ""]

\* JS truthiness (what `a || b` tests).
Truthy(x) ==
  CASE x.t = "absent" -> FALSE
    [] x.t = "num" -> x.n # 0
    [] x.t = "str" -> x.s # ""
    [] OTHER -> TRUE

\* a || b
OrElse(a, b) == IF Truthy(a) THEN a ELSE b

\* A JS number: NaN or an integer.
Num(n) == [nan |-> FALSE, v |-> n]
NaN == [nan |-> TRUE, v |-> 0]

\* The numeric strings that are submitted, with the number each parses to.
NumericStrings == {"39"}
ParseNumeric(s) == 39

\* Number(x) for a value that is not an object: a number is itself, a numeric
\* string parses, '' is 0, any other string is NaN.
ToNumber(x) ==
  CASE x.t = "num" -> Num(x.n)
    [] x.t = "str" /\ x.s = "" -> Num(0)
    [] x.t = "str" /\ x.s \in NumericStrings -> Num(ParseNumeric(x.s))
    [] x.t = "str" -> NaN
    [] OTHER -> Num(0)

\* Math.max / Math.min: NaN if either argument is NaN.
MathMax(a, b) == IF a.nan \/ b.nan THEN NaN ELSE IF a.v >= b.v THEN a ELSE b
MathMin(a, b) == IF a.nan \/ b.nan THEN NaN ELSE IF a.v <= b.v THEN a ELSE b

\* a >= k and a <= k on JS numbers: false for NaN.
Geq(a, k) == ~a.nan /\ a.v >= k
Leq(a, k) == ~a.nan /\ a.v <= k

\* String.prototype.toLowerCase on the strings that are submitted.
ToLowerCase(s) ==
  CASE s = "YES" -> "yes"
    [] s = "Active" -> "active"
    [] s = "Bleeding" -> "bleeding"
    [] s = "Khó thở" -> "khó thở"
    [] OTHER -> s

RECURSIVE LowerText(_)
LowerText(w) ==
  IF w = <<>> THEN <<>> ELSE <<ToLowerCase(Head(w))>> \o LowerText(Tail(w))

\* RegExp.test for an alternation of literal phrases: some phrase occurs.
TestAny(w, phrases) == \E i \in 1..Len(w) : w[i] \in phrases

(* ------------------------- requests and bodies -------------------------- *)

Variants == {"postop", "part000"}

K == <<"k">>
\* SECRET_TOKEN: unset, set, or set to a blank.
SecretTokens == {<<>>, K, <<" ">>}

\* Authorization headers: none, the bearer form, the bearer form with trailing
\* blanks, the raw token, a wrong token, and the bare prefix "Bearer ".
AuthHeaders ==
  {<<>>, BearerPrefix \o K, BearerPrefix \o K \o <<" ">>, K,
   BearerPrefix \o <<"x">>, BearerPrefix}

Methods == {"POST", "GET"}

\* Free texts: sequences of at most n phrases of a vocabulary.
TextsUpTo(vocabulary, n) == UNION {[1..k -> vocabulary] : k \in 0..n}

NoteVocabulary == {"ok", "Khó thở"}
TextVocabulary == {"ok", "Bleeding", "khó thở", "fever", "pus"}

\* The body keys that are modelled (of the synonyms postop.js accepts for a
\* field, the first one, and symptoms.bleeding).  postop.js reads the flat keys,
\* part_000 reads postop.* and message_text.  A key the handler does not read
\* still counts as a key of the object.
NoFields ==
  [pain |-> Absent, bleeding |-> Absent, symptoms_bleeding |-> Absent,
   temp |-> Absent, pus |-> Absent, days_postop |-> Absent, notes |-> <<>>,
   breathing_difficulty |-> Absent,
   symptoms_text |-> <<>>, symptoms_text_num |-> FALSE, message_text |-> <<>>,
   temperature_c |-> Absent, postop_bleeding |-> Absent,
   postop_breathing_difficulty |-> Absent]

\* req.body is undefined (no body was sent).
Undefined == [kind |-> "undefined", f |-> NoFields]
Obj(f) == [kind |-> "object", f |-> f]
EmptyObject == Obj(NoFields)

PostopBodies ==
  {Undefined}
  \cup {Obj([NoFields EXCEPT !.pain = BadObj]), Obj([NoFields EXCEPT !.bleeding = BadObj])}
  \cup {Obj([NoFields EXCEPT !.pain = p, !.bleeding = b, !.temp = t, !.pus = u,
                             !.days_postop = d, !.notes = n,
                             !.breathing_difficulty = br]) :
          p \in {Absent, RawNum(7), RawNum(MaxPain), RawStr("abc")},
          b \in {Absent, RawStr("yes"), RawStr("Active"), RawStr("true")},
          t \in {Absent, RawNum(37), RawNum(MaxTemp), RawStr("abc")},
          u \in {Absent, RawStr("YES")},
          d \in {Absent, RawNum(MaxDays), RawStr("abc")},
          n \in TextsUpTo(NoteVocabulary, MaxNoteWords),
          br \in {Absent, RawStr("yes")}}

Part000Bodies ==
  {Undefined}
  \cup {Obj([NoFields EXCEPT !.symptoms_text_num = TRUE])}
  \cup {Obj([NoFields EXCEPT !.symptoms_text = st, !.message_text = mt,
                             !.temperature_c = t, !.postop_bleeding = b,
                             !.postop_breathing_difficulty = br]) :
          st \in TextsUpTo(TextVocabulary, MaxWords),
          mt \in {<<>>, <<"khó thở">>},
          t \in {Absent, RawNum(37), RawStr("39"), RawStr("abc")},
          b \in {Absent, RawStr("yes"), RawStr("active")},
          br \in {Absent, RawStr("yes")}}

\* Object.keys(body).length for an object body.
KeyCount(f) ==
  Cardinality({k \in {"pain", "bleeding", "symptoms_bleeding", "temp", "pus",
                      "days_postop", "breathing_difficulty", "temperature_c",
                      "postop_bleeding", "postop_breathing_difficulty"} :
                 f[k].t # "absent"})
  + Cardinality({k \in {"notes", "symptoms_text", "message_text"} : f[k] # <<>>})
  + (IF f.symptoms_text_num THEN 1 ELSE 0)

NoRequest == [method |-> "", auth |-> <<>>, body |-> Undefined]

\* An HTTP response; status 0 means that none was sent.
NoResponse ==
  [status |-> 0, error |-> "", recordId |-> 0, score |-> Num(0), level |-> "",
   message |-> "", alert_sent |-> FALSE]
ErrorResponse(status, error) == [NoResponse EXCEPT !.status = status, !.error = error]

(* ------------------------- api/postop.js: scoring ----------------------- *)

\* env(k): (process.env[k] || '').trim()
env(value) == Trim(value)

\* The TypeError raised while the fields are extracted, '' if none: Number()
\* of an object that cannot be converted, .toString that is not a function.
ExtractError(data) ==
  IF data.pain.t = "obj" THEN "Cannot convert object to primitive value"
  ELSE IF OrElse(data.bleeding, data.symptoms_bleeding).t = "obj"
       THEN "toString is not a function"
  ELSE ""

days_postop(data) == ToNumber(OrElse(data.days_postop, RawNum(0)))
pain(data) == ToNumber(OrElse(data.pain, RawNum(0)))
temp(data) == ToNumber(OrElse(data.temp, RawNum(0)))

bleedingRaw(data) ==
  ToLowerCase(OrElse(OrElse(data.bleeding, data.symptoms_bleeding), RawStr("")).s)
bleeding(data) ==
  IF bleedingRaw(data) \in {"yes", "active", "true"} THEN "active"
  ELSE IF bleedingRaw(data) # "" THEN bleedingRaw(data) ELSE "no"

pusRaw(data) == ToLowerCase(OrElse(data.pus, RawStr("")).s)
pus(data) ==
  IF pusRaw(data) \in {"yes", "true"} THEN "yes"
  ELSE IF pusRaw(data) # "" THEN pusRaw(data) ELSE "no"

\* Math.min(Math.max(pain, 0), 10), i.e. pain_norm * 10
pain_norm(data) == MathMin(MathMax(pain(data), Num(0)), Num(10))
bleeding_flag(data) == IF bleeding(data) = "active" THEN 1 ELSE 0
\* fever_norm * 4: 0 when temp is falsy (0 or NaN)
fever_norm(data) ==
  IF temp(data).nan \/ temp(data).v = 0 THEN Num(0)
  ELSE MathMax(Num(0), MathMin(Num(temp(data).v - 36), Num(4)))
pus_flag(data) == IF pus(data) = "yes" THEN 1 ELSE 0
\* days_factor * 30
days_factor(data) == MathMin(MathMax(days_postop(data), Num(0)), Num(30))

\* 6 * (0.4*pain_norm*100 + 0.2*bleeding_flag*100 + 0.2*fever_norm*100
\*      + 0.15*pus_flag*100 + 0.05*days_factor*100)
WeightedSum6(data) ==
  IF pain_norm(data).nan \/ fever_norm(data).nan \/ days_factor(data).nan THEN NaN
  ELSE Num(24 * pain_norm(data).v + 120 * bleeding_flag(data) + 30 * fever_norm(data).v
           + 90 * pus_flag(data) + days_factor(data).v)

\* Math.round(x6 / 6) for x6 >= 0: halves round up.
MathRound6(x) == IF x.nan THEN NaN ELSE Num((x.v + 3) \div 6)

\* score = Math.round(Math.min(Math.max(score, 0), 100))
score(data) == MathRound6(MathMin(MathMax(WeightedSum6(data), Num(0)), Num(600)))

NotesPattern == {"khó thở", "khó nuốt", "difficulty breathing", "swallow"}

label(data) ==
  IF pus_flag(data) = 1 \/ bleeding_flag(data) = 1 \/ Geq(pain(data), 8)
     \/ Geq(temp(data), 38) \/ TestAny(LowerText(data.notes), NotesPattern)
  THEN "high"
  ELSE IF Leq(score(data), 30) THEN "low"
  ELSE IF Leq(score(data), 60) THEN "moderate" ELSE "high"

\* The advisory texts, abridged and without diacritics.
patientMessage(l) ==
  CASE l = "low" -> "trieu chung nhe (Low)"
    [] l = "moderate" -> "trieu chung can kham som (Moderate)"
    [] OTHER -> "CANH BAO (High). Bac si da nhan bao dong."

(* --------------------------- part_000: scoring --------------------------- *)

\* (postop.symptoms_text || payload.message_text || "").toLowerCase()
message_text(payload) ==
  LowerText(IF payload.symptoms_text # <<>> THEN payload.symptoms_text
            ELSE payload.message_text)

\* postop.temperature_c && Number(postop.temperature_c) >= 38
HasFever(payload) ==
  Truthy(payload.temperature_c) /\ Geq(ToNumber(payload.temperature_c), 38)

triage_code(payload) ==
  (IF TestAny(message_text(payload), {"chảy máu", "bleeding"}) THEN 40 ELSE 0)
  + (IF TestAny(message_text(payload), {"khó thở", "shortness of breath", "dyspnea"})
     THEN 60 ELSE 0)
  + (IF TestAny(message_text(payload), {"sốt", "fever"}) THEN 25 ELSE 0)
  + (IF TestAny(message_text(payload), {"mủ", "purulence", "pus"}) THEN 30 ELSE 0)
  + (IF HasFever(payload) THEN 25 ELSE 0)
  + (IF payload.postop_bleeding = RawStr("yes") THEN 40 ELSE 0)
  + (IF payload.postop_breathing_difficulty = RawStr("yes") THEN 60 ELSE 0)

triage_level(payload) ==
  IF triage_code(payload) >= 70 THEN "emergency"
  ELSE IF triage_code(payload) >= 50 THEN "urgent" ELSE "routine"

bot_response(level) ==
  CASE level = "emergency" -> "khan cap (emergency). Chung toi da thong bao cho bac si truc."
    [] level = "urgent" -> "can kham som (urgent)"
    [] OTHER -> "on (routine)"

alert_sent(level) == level = "emergency" \/ level = "urgent"

(* ------------------------------- the handlers ---------------------------- *)

\* Mutant of Unauthorized: only a missing token is refused.
UnauthorizedIfMissing(authHeader, SECRET) ==
  LET token == IF StartsWith(authHeader, BearerPrefix)
               THEN Trim(Slice(authHeader, 7)) ELSE authHeader
  IN token = <<>>

\* line 41 of postop.js: the request is refused with 401.
Unauthorized(authHeader, SECRET) ==
  LET token == IF StartsWith(authHeader, BearerPrefix)
               THEN Trim(Slice(authHeader, 7)) ELSE authHeader
  IN token = <<>> \/ token # SECRET

\* line 12 of part_000: the request is refused with 401.
Unauthorized000(auth, SECRET) == auth = <<>> \/ auth # BearerPrefix \o SECRET

\* Mutant of IsEmptyBody: the key count is not looked at.
IsEmptyBodyNoKeyCheck(body) == body.kind = "undefined"

\* line 47 of postop.js: data is null.
IsEmptyBody(body) == body.kind = "undefined" \/ KeyCount(body.f) = 0

\* Mutant of AlertWanted: 'moderate' alerts too.
AlertWantedFromModerate(l) == l = "high" \/ l = "moderate"

\* if (label === 'high'), line 120 of postop.js
AlertWanted(l) == l = "high"

\* The catch clause of postop.js: err?.message || 'Internal error'
CatchError(message) == IF message # "" THEN message ELSE "Internal error"

\* The catch clause of part_000.
CatchError000(message) == "Internal error"

\* Mutant of DbSave: the failure of the insert is not caught.
DbSaveRethrows(outcome) ==
  CASE outcome = "row" -> [error |-> "", dbId |-> 1]
    [] outcome = "norows" -> [error |-> "", dbId |-> 0]
    [] OTHER -> [error |-> "connection refused", dbId |-> 0]

\* The try/catch around pool.query: a failed insert is logged and leaves dbId
\* null (0); r.rows?.[0]?.id ?? null otherwise.
DbSave(outcome) ==
  CASE outcome = "row" -> [error |-> "", dbId |-> 1]
    [] outcome = "norows" -> [error |-> "", dbId |-> 0]
    [] OTHER -> [error |-> "", dbId |-> 0]

QueryOutcomes == {"row", "norows", "error"}

\* The request is answered without any further effect.
Reply(request, response) ==
  /\ req' = request
  /\ res' = response
  /\ pc' = "done"
  /\ UNCHANGED <<variant, penv, scored, dbIssued, dbOutcome, alertCalled, fetchState, thrown>>

\* A fault reaches the handler's catch clause.
Fail(request, message, error) ==
  /\ req' = request
  /\ thrown' = message
  /\ res' = ErrorResponse(500, error)
  /\ pc' = "done"
  /\ UNCHANGED <<variant, penv, scored, dbIssued, dbOutcome, alertCalled, fetchState>>

\* sendAlertEmail up to its first await: skipped unless both SENDGRID_API_KEY
\* and ALERT_EMAIL are set, else the request to SendGrid is issued.
sendAlertEmail == IF penv.SENDGRID_API_KEY /\ penv.ALERT_EMAIL THEN "pending" ELSE "skipped"

\* postop.js from the patient message to the 200 response.
Respond(data, dbId) ==
  /\ alertCalled' = AlertWanted(label(data))
  /\ fetchState' = IF AlertWanted(label(data)) THEN sendAlertEmail ELSE fetchState
  /\ res' = [status |-> 200, error |-> "", recordId |-> dbId, score |-> score(data),
             level |-> label(data), message |-> patientMessage(label(data)),
             alert_sent |-> FALSE]
  /\ pc' = "done"

\* postop.js, handler: from the request to the response or to await pool.query.
handler ==
  /\ pc = "idle"
  /\ variant = "postop"
  /\ \E m \in Methods, a \in AuthHeaders :
       LET early == [method |-> m, auth |-> a, body |-> Undefined]
           authHeader == Trim(a)
           SECRET == env(penv.SECRET_TOKEN)
       IN IF m # "POST" THEN Reply(early, ErrorResponse(405, "Method Not Allowed"))
          ELSE IF SECRET = <<>> THEN Reply(early, ErrorResponse(500, "Server misconfiguration"))
          ELSE IF Unauthorized(authHeader, SECRET) THEN Reply(early, ErrorResponse(401, "Unauthorized"))
          ELSE \E b \in PostopBodies :
                 LET request == [method |-> m, auth |-> a, body |-> b]
                 IN IF IsEmptyBody(b) THEN Reply(request, ErrorResponse(400, "Empty body"))
                    ELSE IF ExtractError(b.f) # ""
                         THEN Fail(request, ExtractError(b.f), CatchError(ExtractError(b.f)))
                    ELSE /\ req' = request
                         /\ scored' = TRUE
                         /\ IF penv.DATABASE_URL
                            THEN /\ dbIssued' = TRUE
                                 /\ pc' = "db"
                                 /\ UNCHANGED <<res, alertCalled, fetchState>>
                            ELSE /\ Respond(b.f, 0)
                                 /\ UNCHANGED dbIssued
                         /\ UNCHANGED <<variant, penv, dbOutcome, thrown>>

\* pool.query settles: the insert returned a row, no row, or failed.
QueryDone ==
  /\ pc = "db"
  /\ \E outcome \in QueryOutcomes :
       /\ dbOutcome' = outcome
       /\ IF DbSave(outcome).error # ""
          THEN /\ thrown' = DbSave(outcome).error
               /\ res' = ErrorResponse(500, CatchError(DbSave(outcome).error))
               /\ pc' = "done"
               /\ UNCHANGED <<alertCalled, fetchState>>
          ELSE /\ Respond(req.body.f, DbSave(outcome).dbId)
               /\ UNCHANGED thrown
  /\ UNCHANGED <<variant, penv, req, scored, dbIssued>>

\* The fetch of sendAlertEmail settles: resp.ok, or a non-2xx status or a
\* network error, which reject the promise; .catch logs the rejection.
SendGridDone ==
  /\ variant = "postop"
  /\ fetchState = "pending"
  /\ \E outcome \in {"ok", "failed"} : fetchState' = outcome
  /\ UNCHANGED <<variant, penv, pc, req, res, scored, dbIssued, dbOutcome, alertCalled, thrown>>

\* part_000, handler: from the request to the response or to await fetch.
handler000 ==
  /\ pc = "idle"
  /\ variant = "part000"
  /\ \E m \in Methods, a \in AuthHeaders :
       LET early == [method |-> m, auth |-> a, body |-> Undefined]
           SECRET == penv.SECRET_TOKEN
       IN IF m # "POST" THEN Reply(early, ErrorResponse(405, "Method Not Allowed"))
          ELSE IF Unauthorized000(a, SECRET) THEN Reply(early, ErrorResponse(401, "Unauthorized"))
          ELSE \E b \in Part000Bodies :
                 LET request == [method |-> m, auth |-> a, body |-> b]
                     payload == b.f
                     level == triage_level(payload)
                 IN IF payload.symptoms_text_num
                    THEN Fail(request, "toLowerCase is not a function",
                              CatchError000("toLowerCase is not a function"))
                    ELSE /\ req' = request
                         /\ scored' = TRUE
                         /\ alertCalled' = alert_sent(level)
                         /\ IF alert_sent(level) /\ penv.TELEGRAM_BOT_TOKEN /\ penv.DOCTOR_CHAT_ID
                            THEN /\ fetchState' = "pending"
                                 /\ pc' = "fetch"
                                 /\ UNCHANGED res
                            ELSE /\ res' = [status |-> 200, error |-> "", recordId |-> 0,
                                            score |-> Num(triage_code(payload)),
                                            level |-> level,
                                            message |-> bot_response(level),
                                            alert_sent |-> alert_sent(level)]
                                 /\ pc' = "done"
                                 /\ UNCHANGED fetchState
                         /\ UNCHANGED <<variant, penv, dbIssued, dbOutcome, thrown>>

\* The awaited Telegram fetch settles: it resolves (whatever the HTTP status,
\* which is not looked at) or rejects, which the catch clause turns into 500.
TelegramDone ==
  /\ pc = "fetch"
  /\ \E outcome \in {"resolved", "rejected"} :
       /\ fetchState' = outcome
       /\ IF outcome = "rejected"
          THEN /\ thrown' = "fetch failed"
               /\ res' = ErrorResponse(500, CatchError000("fetch failed"))
          ELSE /\ res' = [status |-> 200, error |-> "", recordId |-> 0,
                          score |-> Num(triage_code(req.body.f)),
                          level |-> triage_level(req.body.f),
                          message |-> bot_response(triage_level(req.body.f)),
                          alert_sent |-> alert_sent(triage_level(req.body.f))]
               /\ UNCHANGED thrown
  /\ pc' = "done"
  /\ UNCHANGED <<variant, penv, req, scored, dbIssued, dbOutcome, alertCalled>>

\* A deployment: the variant and its process.env.  A variable the variant
\* never reads is left unset.
Init ==
  /\ variant \in Variants
  /\ penv \in [SECRET_TOKEN : SecretTokens, DATABASE_URL : BOOLEAN,
               SENDGRID_API_KEY : BOOLEAN, ALERT_EMAIL : BOOLEAN,
               TELEGRAM_BOT_TOKEN : BOOLEAN, DOCTOR_CHAT_ID : BOOLEAN]
  /\ variant = "postop" => ~penv.TELEGRAM_BOT_TOKEN /\ ~penv.DOCTOR_CHAT_ID
  /\ variant = "part000" => ~penv.DATABASE_URL /\ ~penv.SENDGRID_API_KEY /\ ~penv.ALERT_EMAIL
  /\ pc = "idle"
  /\ req = NoRequest
  /\ res = NoResponse
  /\ scored = FALSE
  /\ dbIssued = FALSE
  /\ dbOutcome = "none"
  /\ alertCalled = FALSE
  /\ fetchState = "none"
  /\ thrown = ""

Next == handler \/ QueryDone \/ SendGridDone \/ handler000 \/ TelegramDone

Spec == Init /\ [][Next]_vars

(* -------------------------------- claims -------------------------------- *)

\* The handler has finished with the request.
Done == pc = "done"

\* The level and the score the classification gives the request's body.
Level == IF variant = "postop" THEN label(req.body.f) ELSE triage_level(req.body.f)
Score == IF variant = "postop" THEN score(req.body.f) ELSE Num(triage_code(req.body.f))

TopTier == IF variant = "postop" THEN "high" ELSE "emergency"
LowestTier == IF variant = "postop" THEN "low" ELSE "routine"
SecondTierOrAbove == {"moderate", "high", "urgent", "emergency"}

\* An outbound request to the alert channel was issued for the request.
SendIssued == fetchState \in {"pending", "ok", "failed", "resolved", "rejected"}

\* The outbound send has settled (successfully or not).
SendSettled == fetchState \in {"ok", "failed", "resolved", "rejected"}

\* C1: whenever the classification of an authenticated POST triggered an alert
\* and the outbound send has settled, with success or with failure, the response
\* is 200 with the score and the level of the classification.
C1_SendNeverChangesResponse ==
  (scored /\ Trim(penv.SECRET_TOKEN) # <<>> /\ alertCalled /\ SendSettled)
    => (res.status = 200 /\ res.score = Score /\ res.level = Level)

\* C2: with SECRET_TOKEN unset or empty, every POST is answered 500 and nothing
\* is scored or alerted.
C2_FailClosed ==
  (Done /\ req.method = "POST" /\ penv.SECRET_TOKEN = <<>>)
    => (res.status = 500 /\ ~scored /\ ~alertCalled)

\* The report carries active bleeding (bleeding in postop.js, postop.bleeding in
\* part_000) or the breathing-difficulty flag (postop.breathing_difficulty, which
\* only part_000 defines).
ActiveBleeding(f) ==
  IF variant = "postop"
  THEN f.bleeding.t = "str" /\ ToLowerCase(f.bleeding.s) \in {"yes", "active", "true"}
  ELSE f.postop_bleeding.t = "str" /\ f.postop_bleeding.s \in {"yes", "active", "true"}
BreathingDifficulty(f) ==
  variant = "part000" /\ f.postop_breathing_difficulty = RawStr("yes")

\* C3: a report with active bleeding or the breathing-difficulty flag is given
\* the top severity tier, whatever its other fields and its score.
C3_OverrideMonotonicity ==
  (res.status = 200 /\ (ActiveBleeding(req.body.f) \/ BreathingDifficulty(req.body.f)))
    => res.level = TopTier

\* C4: the score of every 200 response is an integer from 0 to 100.
C4_Boundedness ==
  res.status = 200 => (~res.score.nan /\ res.score.v >= 0 /\ res.score.v <= 100)

\* The secret occurs nowhere in the header.
RECURSIVE Occurs(_, _)
Occurs(p, s) == Len(s) >= Len(p) /\ (StartsWith(s, p) \/ Occurs(p, Tail(s)))

\* A POST with a non-blank secret configured whose Authorization header is
\* missing or does not carry the secret.
BadCredentials ==
  /\ req.method = "POST"
  /\ Trim(penv.SECRET_TOKEN) # <<>>
  /\ ~Occurs(Trim(penv.SECRET_TOKEN), req.auth)

\* C5: a POST with a missing or wrong Authorization header is answered 401, and
\* nothing is scored, inserted or sent for it.
C5_AuthPrecedesAllWork ==
  BadCredentials
    => (Done /\ res.status = 401 /\ ~scored /\ ~dbIssued /\ ~alertCalled /\ ~SendIssued)

C5_Witness ==
  /\ BadCredentials
  /\ variant = "postop"
  /\ req.auth = BearerPrefix \o <<"x">>
  /\ res.status = 401

\* C6, as claimed: an alert is dispatched iff the level is at or above the
\* second-highest tier.
C6_AlertFromSecondTier ==
  (Done /\ scored /\ thrown = "") => (alertCalled <=> Level \in SecondTierOrAbove)

\* C6, amended: postop.js calls sendAlertEmail iff the label is 'high' (not for
\* 'moderate'), and the mail request is issued iff also SENDGRID_API_KEY and
\* ALERT_EMAIL are set; part_000 decides to alert iff the level is 'urgent' or
\* 'emergency', and the Telegram request is issued iff also TELEGRAM_BOT_TOKEN
\* and DOCTOR_CHAT_ID are set.
C6_AlertDecision ==
  (Done /\ scored)
    => /\ variant = "postop" =>
            /\ alertCalled <=> Level = "high"
            /\ SendIssued <=> (Level = "high" /\ penv.SENDGRID_API_KEY /\ penv.ALERT_EMAIL)
       /\ variant = "part000" =>
            /\ alertCalled <=> Level \in {"urgent", "emergency"}
            /\ SendIssued <=> (Level \in {"urgent", "emergency"}
                               /\ penv.TELEGRAM_BOT_TOKEN /\ penv.DOCTOR_CHAT_ID)

C6_Witness ==
  /\ Done
  /\ variant = "postop"
  /\ res.status = 200
  /\ res.level = "moderate"
  /\ ~alertCalled

\* C7: a fault that reaches the handler's catch clause is answered 500 with the
\* same generic error, whatever the exception.
C7_Generic500 ==
  thrown # "" => (res.status = 500 /\ res.error = "Internal error")

\* C8: in postop.js, once the insert was issued and has settled, failed or
\* not, the answer is 200 with the score, label and message of the body alone;
\* a failed insert leaves recordId null, and a 'high' label still calls
\* sendAlertEmail, which issues the mail request when SendGrid is configured.
C8_PersistenceBestEffort ==
  (Done /\ dbIssued)
    => /\ res.status = 200
       /\ res.score = score(req.body.f)
       /\ res.level = label(req.body.f)
       /\ res.message = patientMessage(label(req.body.f))
       /\ dbOutcome = "error" => res.recordId = 0
       /\ label(req.body.f) = "high" =>
            /\ alertCalled
            /\ (penv.SENDGRID_API_KEY /\ penv.ALERT_EMAIL) => SendIssued

C8_Witness ==
  /\ Done
  /\ dbOutcome = "error"
  /\ res.status = 200
  /\ res.level = "high"
  /\ res.recordId = 0
  /\ alertCalled
  /\ SendIssued

\* C9, as claimed: the empty object is answered 200 with score 0, the lowest
\* tier and no alert.
C9_EmptyPayloadScoresZero ==
  (Done /\ req.body = EmptyObject)
    => (res.status = 200 /\ res.score = Num(0) /\ res.level = LowestTier /\ ~alertCalled)

\* A body of postop.js that is not empty and carries no signal: its only key
\* is the notes, without any keyword.
OnlyNotes == Obj([NoFields EXCEPT !.notes = <<"ok">>])

\* C9, amended: part_000 answers {} with 200, score 0, 'routine' and no alert;
\* postop.js answers {} with 400 'Empty body' and scores and alerts nothing,
\* and answers a non-empty body without any signal with score 0, 'low' and no
\* alert.
C9_DefaultSafety ==
  /\ (Done /\ variant = "part000" /\ req.body = EmptyObject)
       => /\ res.status = 200
          /\ res.score = Num(0)
          /\ res.level = "routine"
          /\ ~res.alert_sent
          /\ ~alertCalled
          /\ ~SendIssued
  /\ (Done /\ variant = "postop" /\ req.body = EmptyObject)
       => /\ res.status = 400
          /\ res.error = "Empty body"
          /\ ~scored
          /\ ~alertCalled
  /\ (Done /\ variant = "postop" /\ req.body = OnlyNotes)
       => /\ res.status = 200
          /\ res.score = Num(0)
          /\ res.level = "low"
          /\ ~alertCalled

C9_Witness ==
  /\ Done
  /\ variant = "postop"
  /\ req.body = EmptyObject
  /\ res.status = 400

\* The 200 response tells the caller that staff were alerted.
ReportsAlert ==
  /\ res.status = 200
  /\ \/ res.alert_sent
     \/ (variant = "postop" /\ res.level = "high"
         /\ res.message = "CANH BAO (High). Bac si da nhan bao dong.")

\* C10: a response that reports the alert goes with an outbound alert request
\* that was issued.
C10_ReportedAlertWasSent == ReportsAlert => SendIssued

====
